---- MODULE Spec2Model ----
(***************************************************************************)
(* Wasserstein GAN critic training step (generative/gans/wasserstein.py): *)
(* the GANMetaclass that injects WassersteinMixin at construction, the    *)
(* WeightClipConstraint, and WassersteinMixin.discriminator_step with its *)
(* n_critic loop, minibatch slicing, gradient penalty and metric update.  *)
(*                                                                         *)
(* Tensors are abstracted to what the control flow and the claims depend  *)
(* on: a batch is its size along axis 0, a weight is a fixed-point        *)
(* integer, and the values produced by the opaque networks (losses,       *)
(* penalties, gradients) are drawn nondeterministically from small sets.  *)
(***************************************************************************)
EXTENDS Integers, Sequences, FiniteSets, TLC

VARIABLES classes, instances, call, clip_obj, tensor, result

vars == <<classes, instances, call, clip_obj, tensor, result>>

(***************************** bounds **************************************)
MaxNCritic == 2
MaxMbSize == 2
MaxWeight == 2
MaxCalls == 2
MaxSelInstances == 2
MaxLen == 2
MaxBound == 3

(************************* program constants *******************************)
KERNEL == "kernel"
BIAS == "bias"
CLIP_WEIGHTS == "clip_weights"
GRADIENT_PENALTY == "gradient_penalty"
WASSERSTEIN == "wasserstein"
STANDARD == "standard"

\* Python's None; a present value v is carried as <<v>> so that None never
\* compares against a number.
None == <<>>
Some(v) == <<v>>
Val(o) == o[1]

\* Python truthiness of an Optional number: None and 0 are falsy.
Truthy(o) == o # None /\ Val(o) # 0

Min(a, b) == IF a <= b THEN a ELSE b
Max(a, b) == IF a >= b THEN a ELSE b
Abs(a) == IF a >= 0 THEN a ELSE 0 - a

(************************* configuration ***********************************)
\* cfg.get(key, default) of a DictConfig.
CfgGet(cfg, key, default) == IF key \in DOMAIN cfg THEN cfg[key] ELSE default

WithOptional(S, key, V) == S \cup { c @@ (key :> v) : c \in S, v \in V }

\* The configuration files carry every hyperparameter key (clip_value and
\* gradient_penalty side by side); drift_term is optional.
ConfigsOver(L, T, N, M, C, G, D) ==
    WithOptional([loss : L, wasserstein_type : T, n_critic : N, minibatch_size : M,
                  clip_value : C, gradient_penalty : G],
                 "drift_term", D)

WassersteinTypeValues == {CLIP_WEIGHTS, GRADIENT_PENALTY, "none"}

\* Clip values below the largest weight, so that clipping has an effect.
ClipValues == 1..(MaxWeight - 1)

\* Configurations of the loop specification: Wasserstein loss, every loop
\* shape, a zero and a nonzero penalty coefficient, drift_term set or not.
Configs ==
    ConfigsOver({WASSERSTEIN}, WassersteinTypeValues, 1..MaxNCritic, 1..MaxMbSize,
                ClipValues, {0, 1}, {1})

\* Configurations of the weight specification: Wasserstein loss, every
\* constraint type and clip value, one or two critic updates per call.
WeightConfigs ==
    ConfigsOver({WASSERSTEIN}, WassersteinTypeValues, {1, 2}, {1},
                ClipValues, {1}, {})

\* Configurations of the selector specification: both losses, one shape.
SelConfigs ==
    ConfigsOver({WASSERSTEIN, STANDARD}, {CLIP_WEIGHTS, GRADIENT_PENALTY}, {1}, {1},
                {1}, {1}, {})

(***************************** classes *************************************)
\* The class registry is a sequence of class objects; a class is referred to
\* by its position.  Position 1 is WassersteinMixin, position 2 the GAN class
\* declared with metaclass=GANMetaclass.
MixinClass ==
    [name |-> "WassersteinMixin", bases |-> <<>>,
     dict |-> {"__init__", "discriminator_step", "apply_gradient_penalty",
               "calc_gradient_penalty", "n_critic", "gradient_penalty"}]

BaseClass ==
    [name |-> "GAN", bases |-> <<>>,
     dict |-> {"__init__", "discriminator_step", "generator_step",
               "build_discriminator"}]

InitialClasses == <<MixinClass, BaseClass>>
MixinIdx == 1
BaseIdx == 2

\* Attribute lookup along the bases, left to right (the hierarchy built by
\* the metaclass has no diamond, so this is the MRO).  0 when not found.
RECURSIVE Resolve(_, _, _)
RECURSIVE ResolveIn(_, _, _, _)
Resolve(cs, c, method) ==
    IF method \in cs[c].dict THEN c ELSE ResolveIn(cs, cs[c].bases, 1, method)
ResolveIn(cs, bases, k, method) ==
    IF k > Len(bases) THEN 0
    ELSE LET r == Resolve(cs, bases[k], method)
         IN  IF r # 0 THEN r ELSE ResolveIn(cs, bases, k + 1, method)

(************************ WeightClipConstraint *****************************)
\* Variant: minimum and maximum exchanged.
clip_by_value_swapped(t, lo, hi) == Min(Max(t, hi), lo)

\* tf.clip_by_value(t, lo, hi) = maximum(minimum(t, hi), lo), element-wise.
clip_by_value(t, lo, hi) == Max(Min(t, hi), lo)

WeightClipConstraint(clip_value) == [_clip_value |-> clip_value]

\* Variant: only the upper bound is enforced.
WeightClipConstraint__call___upper(self, weights) ==
    [k \in DOMAIN weights |-> Min(weights[k], self._clip_value)]

WeightClipConstraint__call__(self, weights) ==
    [k \in DOMAIN weights |->
        clip_by_value(weights[k], 0 - self._clip_value, self._clip_value)]

(*************************** construction **********************************)
DWeightNames == {KERNEL, BIAS}
WeightValues == (0 - MaxWeight)..MaxWeight
WeightTensors == [DWeightNames -> WeightValues]
ZeroWeights == [k \in DWeightNames |-> 0]

\* Base GAN __init__: builds the generator and the discriminator with fresh
\* initial weights and no constraint, the two optimisers and the loss metric.
BaseInit(c, cfg, w0, g0) ==
    [cls |-> c, cfg |-> cfg,
     _mb_size |-> cfg.minibatch_size,
     d_weights |-> w0, d_constraint |-> None,
     g_weights |-> g0,
     d_iterations |-> 0, g_iterations |-> 0,
     _d_metric |-> [total |-> 0, count |-> 0],
     _n_critic |-> None, _gradient_penalty_coeff |-> None,
     _drift_term_coeff |-> None,
     calls |-> 0]

\* build_discriminator(cfg, constraint=...): rebuilds the critic with the
\* constraint attached to its weights; the rebuilt weights are fresh.
build_discriminator(self, constraint, w1) ==
    [self EXCEPT !.d_weights = w1, !.d_constraint = Some(constraint)]

\* Variant: the gradient-penalty coefficient is read before the branch.
WassersteinMixin__init___eager(c, cfg, w0, w1, g0) ==
    LET s0 == BaseInit(c, cfg, w0, g0)
        s1 == [s0 EXCEPT !._n_critic = Some(cfg.n_critic),
                         !._gradient_penalty_coeff = Some(cfg.gradient_penalty)]
    IN  IF cfg.wasserstein_type = CLIP_WEIGHTS
        THEN build_discriminator(s1, WeightClipConstraint(cfg.clip_value), w1)
        ELSE IF cfg.wasserstein_type = GRADIENT_PENALTY
        THEN [s1 EXCEPT !._drift_term_coeff = Some(CfgGet(cfg, "drift_term", 0))]
        ELSE s1

\* WassersteinMixin.__init__
WassersteinMixin__init__(c, cfg, w0, w1, g0) ==
    LET s0 == BaseInit(c, cfg, w0, g0)
        s1 == [s0 EXCEPT !._n_critic = Some(cfg.n_critic),
                         !._gradient_penalty_coeff = None]
    IN  IF cfg.wasserstein_type = CLIP_WEIGHTS
        THEN build_discriminator(s1, WeightClipConstraint(cfg.clip_value), w1)
        ELSE IF cfg.wasserstein_type = GRADIENT_PENALTY
        THEN [s1 EXCEPT !._drift_term_coeff = Some(CfgGet(cfg, "drift_term", 0)),
                        !._gradient_penalty_coeff = Some(cfg.gradient_penalty)]
        ELSE s1

\* type(f"Wasserstein{cls.__name__}", (WassersteinMixin, cls), {})
NewWassersteinClass(cs, c) ==
    [name |-> "Wasserstein" \o cs[c].name, bases |-> <<MixinIdx, c>>, dict |-> {}]

\* Variant: the mixin is mixed into the class itself instead of a new class.
GANMetaclass__call___inplace(cs, c, args, kwargs) ==
    LET cfg == IF "cfg" \in DOMAIN kwargs THEN kwargs.cfg ELSE args[1]
    IN  IF cfg.loss = WASSERSTEIN
        THEN [classes |-> [cs EXCEPT ![c].bases = <<MixinIdx>>, ![c].dict = {}],
              cls |-> c, cfg |-> cfg]
        ELSE [classes |-> cs, cls |-> c, cfg |-> cfg]

\* GANMetaclass.__call__: the class registry after the call and the class
\* the instance is created from.
GANMetaclass__call__(cs, c, args, kwargs) ==
    LET cfg == IF "cfg" \in DOMAIN kwargs THEN kwargs.cfg ELSE args[1]
    IN  IF cfg.loss = WASSERSTEIN
        THEN [classes |-> Append(cs, NewWassersteinClass(cs, c)),
              cls |-> Len(cs) + 1, cfg |-> cfg]
        ELSE [classes |-> cs, cls |-> c, cfg |-> cfg]

\* super().__call__(*args, **kwargs): runs the __init__ found on the class.
NewInstance(cs, c, cfg, w0, w1, g0) ==
    IF Resolve(cs, c, "__init__") = MixinIdx
    THEN WassersteinMixin__init__(c, cfg, w0, w1, g0)
    ELSE BaseInit(c, cfg, w0, g0)

Positional(cfg) == [args |-> <<cfg>>, kwargs |-> <<>>]
Keyword(cfg) == [args |-> <<>>, kwargs |-> [cfg |-> cfg]]
Passings(cfg) == {Positional(cfg), Keyword(cfg)}

(***************************** accessors ***********************************)
\* n_critic property: int(self._n_critic); the configured value is an
\* integer (range() in discriminator_step requires one), which int() keeps.
n_critic(self) == Val(self._n_critic)

\* gradient_penalty property
gradient_penalty(self) == self._gradient_penalty_coeff

(************************** training steps *********************************)
\* The call in flight (training is single-threaded, so there is at most one):
\* the receiver, the implementation the method lookup selected, the batch
\* size, the loop position, a log of what the call has done so far, the
\* receiver's state when the call was entered and, once returned, the value.
IdleCall ==
    [pc |-> "idle", self |-> 0, impl |-> 0, real_images |-> 0, idx |-> 0,
     real_mb_size |-> 0, loss |-> 0, log |-> <<>>, entry |-> None,
     ret |-> Some("running")]

Event(idx, ev) == [idx |-> idx, ev |-> ev]

\* Variant: the last row is never part of a slice.
SliceLen_offbyone(n, start, stop) == Max(0, Min(stop, n - 1) - Min(start, n - 1))

\* Variant: the start index is not clamped to the tensor's size.
SliceLen_noclamp(n, start, stop) == Min(stop, n) - start

\* Size along axis 0 of t[start:stop] for a tensor of n rows, 0 <= start.
SliceLen(n, start, stop) == Max(0, Min(stop, n) - Min(start, n))

BatchSizes == 0..(MaxNCritic * MaxMbSize + 1)
GradValues == {0 - 1, 0, 1}
Gradients == [DWeightNames -> GradValues]

\* apply_gradient_penalty: coefficient * gradient penalty + drift
\* coefficient * drift term, for the penalty and drift term the critic yields.
apply_gradient_penalty(self, grad_penalty, drift_term) ==
    Val(self._gradient_penalty_coeff) * grad_penalty
        + Val(self._drift_term_coeff) * drift_term

\* The optimiser's parameter update for the given gradients.
apply_gradients(weights, grads) == [k \in DOMAIN weights |-> weights[k] - grads[k]]

\* The constraint attached to the critic's weights, applied after the update.
ApplyConstraint(constraint, weights) ==
    IF constraint = None THEN weights
    ELSE WeightClipConstraint__call__(Val(constraint), weights)

\* Variant: the step is also counted on the generator's optimiser.
CriticUpdate_generator(self, grads) ==
    [self EXCEPT !.d_weights = ApplyConstraint(self.d_constraint,
                                               apply_gradients(self.d_weights, grads)),
                 !.d_iterations = @ + 1,
                 !.g_weights = @ - grads[KERNEL],
                 !.g_iterations = @ + 1]

\* One critic optimiser step on the instance: the update, the attached
\* constraint, the optimiser's iteration counter.
CriticUpdate(self, grads) ==
    [self EXCEPT !.d_weights = ApplyConstraint(self.d_constraint,
                                               apply_gradients(self.d_weights, grads)),
                 !.d_iterations = @ + 1]

\* Metric update_state(value) of a running mean.
update_state(metric, value) ==
    [total |-> metric.total + value, count |-> metric.count + 1]

InRange(weights) == \A k \in DOMAIN weights : weights[k] \in WeightValues

Snapshot(self) ==
    Some([g_weights |-> self.g_weights, g_iterations |-> self.g_iterations,
          _d_metric |-> self._d_metric, d_iterations |-> self.d_iterations])

\* Which discriminator_step a call on the instance runs.
StepImpl(cs, self) == Resolve(cs, self.cls, "discriminator_step")

\* self.discriminator_step(real_images) is entered.
CallStep(i, B) ==
    /\ call.pc \in {"idle", "done"}
    /\ i \in 1..Len(instances)
    /\ instances[i].calls < MaxCalls
    /\ StepImpl(classes, instances[i]) = MixinIdx
    /\ call' = [IdleCall EXCEPT !.pc = "loop", !.self = i, !.impl = MixinIdx,
                                !.real_images = B,
                                !.entry = Snapshot(instances[i])]
    /\ instances' = [instances EXCEPT ![i].calls = @ + 1]
    /\ UNCHANGED <<classes, clip_obj, tensor, result>>

\* Variant: an empty slice ends the loop (break) instead of skipping.
LoopHead_break ==
    /\ call.pc = "loop"
    /\ LET self == instances[call.self]
           mb == SliceLen(call.real_images, call.idx * self._mb_size,
                          (call.idx + 1) * self._mb_size)
       IN  IF call.idx >= n_critic(self) \/ mb = 0
           THEN call' = [call EXCEPT !.pc = "done", !.ret = None]
           ELSE call' = [call EXCEPT !.pc = "forward", !.real_mb_size = mb]
    /\ UNCHANGED <<classes, instances, clip_obj, tensor, result>>

\* for idx in range(self._n_critic): slice the minibatch, skip it if empty.
LoopHead ==
    /\ call.pc = "loop"
    /\ LET self == instances[call.self]
           mb == SliceLen(call.real_images, call.idx * self._mb_size,
                          (call.idx + 1) * self._mb_size)
       IN  IF call.idx >= n_critic(self)
           THEN call' = [call EXCEPT !.pc = "done", !.ret = None]
           ELSE IF mb = 0
           THEN call' = [call EXCEPT !.idx = @ + 1, !.real_mb_size = mb,
                                     !.log = Append(@, Event(call.idx, "skip"))]
           ELSE call' = [call EXCEPT !.pc = "forward", !.real_mb_size = mb]
    /\ UNCHANGED <<classes, instances, clip_obj, tensor, result>>

\* Generator and critic forward pass, adversarial loss, optional penalty.
Forward(adv, grad_penalty, drift_term) ==
    /\ call.pc = "forward"
    /\ LET self == instances[call.self]
           gen == Append(call.log, Event(call.idx, "generator"))
       IN  IF Truthy(self._gradient_penalty_coeff)
           THEN call' = [call EXCEPT
                    !.pc = "apply",
                    !.loss = adv + apply_gradient_penalty(self, grad_penalty, drift_term),
                    !.log = Append(gen, Event(call.idx, "penalty"))]
           ELSE call' = [call EXCEPT !.pc = "apply", !.loss = adv, !.log = gen]
    /\ UNCHANGED <<classes, instances, clip_obj, tensor, result>>

\* tape.gradient + self._d_optimiser.apply_gradients on the critic weights.
ApplyGradients(grads) ==
    /\ call.pc = "apply"
    /\ LET self == instances[call.self]
           updated == apply_gradients(self.d_weights, grads)
           applied == Append(call.log, Event(call.idx, "apply_gradients"))
       IN  /\ InRange(updated)
           /\ instances' = [instances EXCEPT ![call.self] = CriticUpdate(self, grads)]
           /\ call' = [call EXCEPT
                  !.pc = "metric",
                  !.log = IF self.d_constraint = None THEN applied
                          ELSE Append(applied, Event(call.idx, "constraint"))]
    /\ UNCHANGED <<classes, clip_obj, tensor, result>>

\* self._d_metric.update_state(loss), then the next loop index.
UpdateMetric ==
    /\ call.pc = "metric"
    /\ instances' = [instances EXCEPT
           ![call.self]._d_metric = update_state(@, call.loss)]
    /\ call' = [call EXCEPT !.pc = "loop", !.idx = @ + 1, !.loss = 0,
                            !.real_mb_size = 0,
                            !.log = Append(@, Event(call.idx, "update_state"))]
    /\ UNCHANGED <<classes, clip_obj, tensor, result>>

\* discriminator_step of the GAN class itself (no mixin): one critic update
\* on the whole batch.
BaseDiscriminatorStep(i, B, adv, grads) ==
    /\ call.pc \in {"idle", "done"}
    /\ i \in 1..Len(instances)
    /\ instances[i].calls < MaxCalls
    /\ StepImpl(classes, instances[i]) = BaseIdx
    /\ LET self == instances[i]
           updated == apply_gradients(self.d_weights, grads)
       IN  /\ InRange(updated)
           /\ instances' = [instances EXCEPT
                  ![i] = [CriticUpdate(self, grads) EXCEPT
                             !._d_metric = update_state(@, adv),
                             !.calls = @ + 1]]
           /\ call' = [IdleCall EXCEPT !.pc = "done", !.ret = None, !.self = i, !.impl = BaseIdx,
                                       !.real_images = B,
                                       !.entry = Snapshot(self),
                                       !.log = <<Event(0, "base_step")>>]
    /\ UNCHANGED <<classes, clip_obj, tensor, result>>

\* cls(cfg) / cls(cfg=cfg) on the GAN class.
Construct(p, w0, w1, g0) ==
    /\ call.pc \in {"idle", "done"}
    /\ LET m == GANMetaclass__call__(classes, BaseIdx, p.args, p.kwargs)
       IN  /\ classes' = m.classes
           /\ instances' = Append(instances,
                                  NewInstance(m.classes, m.cls, m.cfg, w0, w1, g0))
    /\ UNCHANGED <<call, clip_obj, tensor, result>>

(************************* constraint probe ********************************)
\* A WeightClipConstraint object applied to an arbitrary weight tensor.
Tensors == UNION { [1..n -> WeightValues] : n \in 1..MaxLen }

\* result.arg is the argument as it was when the call was made, result.out
\* the returned tensor, result.again what the constraint returns for it.
ClipCall ==
    /\ clip_obj # None
    /\ result = None
    /\ result' = Some([arg |-> tensor,
                       out |-> WeightClipConstraint__call__(Val(clip_obj), tensor),
                       again |-> None])
    /\ UNCHANGED <<classes, instances, call, clip_obj, tensor>>

\* The returned tensor is passed to the constraint again.
ClipFeed ==
    /\ result # None
    /\ Val(result).again = None
    /\ result' = Some([Val(result) EXCEPT
                    !.again = Some(WeightClipConstraint__call__(Val(clip_obj),
                                                                Val(result).out))])
    /\ UNCHANGED <<classes, instances, call, clip_obj, tensor>>

(*************************** specifications ********************************)
\* The state after cls(cfg) / cls(cfg=cfg) on the GAN class, for a
\* configuration of C and initial critic weights of W.
Constructed(C, W) ==
    \E cfg \in C : \E p \in Passings(cfg) : \E w0 \in W, w1 \in W :
        LET m == GANMetaclass__call__(InitialClasses, BaseIdx, p.args, p.kwargs)
        IN  /\ classes = m.classes
            /\ instances = <<NewInstance(m.classes, m.cls, m.cfg, w0, w1, 0)>>

NoProbe ==
    /\ clip_obj = None
    /\ tensor = <<>>
    /\ result = None

\* The critic loop of one constructed Wasserstein instance, over every loop
\* shape, batch size and loss value; the critic's gradients are held at zero.
Init ==
    /\ Constructed(Configs, {ZeroWeights})
    /\ call = IdleCall
    /\ NoProbe

Next ==
    \/ \E i \in 1..Len(instances), B \in BatchSizes : CallStep(i, B)
    \/ LoopHead
    \/ \E adv \in {0, 1}, gp \in {0, 1}, dt \in {0, 1} : Forward(adv, gp, dt)
    \/ ApplyGradients(ZeroWeights)
    \/ UpdateMetric

Spec == Init /\ [][Next]_vars

\* The critic weights of one constructed Wasserstein instance, over every
\* initial weight, gradient and loss value.
InitWeights ==
    /\ Constructed(WeightConfigs, WeightTensors)
    /\ call = IdleCall
    /\ NoProbe

NextWeights ==
    \/ \E i \in 1..Len(instances), B \in {0, 1, 2} : CallStep(i, B)
    \/ LoopHead
    \/ \E adv \in {0, 1} : Forward(adv, 1, 1)
    \/ \E grads \in Gradients : ApplyGradients(grads)
    \/ UpdateMetric

SpecWeights == InitWeights /\ [][NextWeights]_vars

\* Construction of several instances of the same GAN class, then training.
InitSel ==
    /\ classes = InitialClasses
    /\ instances = <<>>
    /\ call = IdleCall
    /\ NoProbe

NextSel ==
    \/ /\ Len(instances) < MaxSelInstances
       /\ \E cfg \in SelConfigs : \E p \in Passings(cfg) :
            Construct(p, ZeroWeights, ZeroWeights, 0)
    \/ \E i \in 1..Len(instances) : CallStep(i, 1)
    \/ LoopHead
    \/ Forward(0, 0, 0)
    \/ ApplyGradients(ZeroWeights)
    \/ UpdateMetric
    \/ \E i \in 1..Len(instances) : BaseDiscriminatorStep(i, 1, 0, ZeroWeights)

SpecSel == InitSel /\ [][NextSel]_vars

\* The constraint function on arbitrary tensors and bounds.
InitClip ==
    /\ classes = InitialClasses
    /\ instances = <<>>
    /\ call = IdleCall
    /\ clip_obj \in { Some(WeightClipConstraint(b)) : b \in 1..MaxBound }
    /\ tensor \in Tensors
    /\ result = None

NextClip == ClipCall \/ ClipFeed

SpecClip == InitClip /\ [][NextClip]_vars

(****************************** claims *************************************)
Self == instances[call.self]
Entry == Val(call.entry)

\* A call of the Wasserstein discriminator_step is in flight or has returned.
WCall == call.pc # "idle" /\ call.impl = MixinIdx
WDone == WCall /\ call.pc = "done"

CountEv(ev) == Cardinality({ k \in 1..Len(call.log) : call.log[k].ev = ev })
CountAt(idx, ev) ==
    Cardinality({ k \in 1..Len(call.log) : call.log[k] = Event(idx, ev) })

CeilDiv(a, b) == (a + b - 1) \div b

IsWasserstein(self) == self._n_critic # None

\* C1: a call on a batch of exactly n_critic * minibatch_size rows performs
\* exactly n_critic critic optimiser updates, one per loop index, none skipped.
Thm_C1 ==
    (WDone /\ call.real_images = n_critic(Self) * Self._mb_size) =>
        /\ CountEv("apply_gradients") = n_critic(Self)
        /\ \A idx \in 0..(n_critic(Self) - 1) : CountAt(idx, "apply_gradients") = 1
        /\ CountEv("skip") = 0
        /\ Self.d_iterations = Entry.d_iterations + n_critic(Self)

Wit_C1 ==
    /\ WDone
    /\ n_critic(Self) = 2 /\ Self._mb_size = 2 /\ call.real_images = 4
    /\ CountEv("apply_gradients") = 2

\* C2 (as stated): a call on a batch smaller than minibatch_size performs no
\* critic optimiser update and leaves the loss metric as it was.
CE_C2 ==
    (WDone /\ call.real_images < Self._mb_size) =>
        /\ CountEv("apply_gradients") = 0
        /\ Self._d_metric = Entry._d_metric

\* C2 (amended): a call on an empty batch performs no critic optimiser update,
\* skips every loop index and leaves the loss metric as it was; a call on a
\* batch of 1..minibatch_size-1 rows performs exactly one update, on index 0.
Thm_C2 ==
    /\ (WDone /\ call.real_images = 0) =>
          /\ CountEv("apply_gradients") = 0
          /\ CountEv("skip") = n_critic(Self)
          /\ Self._d_metric = Entry._d_metric
          /\ Self.d_iterations = Entry.d_iterations
    /\ (WDone /\ call.real_images > 0 /\ call.real_images < Self._mb_size) =>
          /\ CountEv("apply_gradients") = 1
          /\ CountAt(0, "apply_gradients") = 1
          /\ Self._d_metric.count = Entry._d_metric.count + 1

Wit_C2 ==
    /\ WDone
    /\ call.real_images = 0 /\ Self._mb_size = 2 /\ n_critic(Self) = 2
    /\ CountEv("skip") = 2

Clipped(weights, bound) == \A k \in DOMAIN weights : Abs(weights[k]) <= bound

\* C3 (as stated): in clip mode every critic weight is within
\* [-clip_value, clip_value] after any discriminator_step call.
CE_C3 ==
    (WDone /\ Self.cfg.wasserstein_type = CLIP_WEIGHTS) =>
        Clipped(Self.d_weights, Self.cfg.clip_value)

\* C3 (amended): in clip mode the constraint runs right after every critic
\* optimiser update, so every critic weight is within [-clip_value,
\* clip_value] once the instance has had an update; outside clip mode no
\* constraint is attached and none ever runs.
Thm_C3 ==
    \A i \in 1..Len(instances) :
        LET self == instances[i] IN
        IsWasserstein(self) =>
            IF self.cfg.wasserstein_type = CLIP_WEIGHTS
            THEN /\ self.d_constraint = Some(WeightClipConstraint(self.cfg.clip_value))
                 /\ self.d_iterations >= 1 =>
                        Clipped(self.d_weights, self.cfg.clip_value)
                 /\ (WCall /\ call.self = i) =>
                        \A k \in 1..Len(call.log) :
                            call.log[k].ev = "apply_gradients" =>
                                /\ k < Len(call.log)
                                /\ call.log[k + 1] = Event(call.log[k].idx, "constraint")
            ELSE /\ self.d_constraint = None
                 /\ (WCall /\ call.self = i) => CountEv("constraint") = 0

Wit_C3 ==
    /\ WDone
    /\ Self.cfg.wasserstein_type = CLIP_WEIGHTS
    /\ CountEv("constraint") = 2
    /\ Self.d_weights[KERNEL] = Self.cfg.clip_value
    /\ Self.d_weights[BIAS] = 0 - Self.cfg.clip_value

ClipActive(self) == self.d_constraint # None
PenaltyActive(self) == self._gradient_penalty_coeff # None

\* C4 (as stated): every constructed Wasserstein instance comes from a
\* configuration that selects one constraint mode and has exactly one of
\* clip mode and gradient-penalty mode active.
CE_C4 ==
    \A i \in 1..Len(instances) :
        IsWasserstein(instances[i]) =>
            /\ instances[i].cfg.wasserstein_type \in {CLIP_WEIGHTS, GRADIENT_PENALTY}
            /\ ClipActive(instances[i]) # PenaltyActive(instances[i])

\* C5: an instance runs the Wasserstein discriminator_step exactly when its
\* configuration's loss was WASSERSTEIN at construction and the GAN class's
\* own step otherwise; this holds for every instance at every later point,
\* and the GAN class itself is left as it was declared.
Thm_C5 ==
    /\ classes[MixinIdx] = MixinClass
    /\ classes[BaseIdx] = BaseClass
    /\ \A i \in 1..Len(instances) :
          /\ StepImpl(classes, instances[i]) =
                 IF instances[i].cfg.loss = WASSERSTEIN THEN MixinIdx ELSE BaseIdx
          /\ IsWasserstein(instances[i]) <=> instances[i].cfg.loss = WASSERSTEIN
    /\ call.pc # "idle" =>
          call.impl = IF Self.cfg.loss = WASSERSTEIN THEN MixinIdx ELSE BaseIdx

Wit_C5 ==
    /\ Len(instances) = 2
    /\ instances[1].cfg.loss = WASSERSTEIN /\ instances[1].calls >= 1
    /\ instances[2].cfg.loss = STANDARD
    /\ call.pc = "done" /\ call.self = 2 /\ call.impl = BaseIdx

\* C6: during and after a Wasserstein discriminator_step the generator's
\* weights and the generator optimiser's state are what they were when the
\* call was entered, and the call returns None.
Thm_C6 ==
    WCall =>
        /\ Self.g_weights = Entry.g_weights
        /\ Self.g_iterations = Entry.g_iterations
        /\ call.pc = "done" <=> call.ret = None

Wit_C6 ==
    /\ WDone
    /\ Self.d_iterations >= 3
    /\ Self._d_metric.count >= 3
    /\ call.ret = None

\* C7: at every point n_critic is the configured n_critic, gradient_penalty
\* is the configured coefficient in gradient-penalty mode and None otherwise,
\* and the drift coefficient is 0 when drift_term is not configured.
Thm_C7 ==
    \A i \in 1..Len(instances) :
        LET self == instances[i] IN
        IsWasserstein(self) =>
            /\ n_critic(self) = self.cfg.n_critic
            /\ gradient_penalty(self) =
                   IF self.cfg.wasserstein_type = GRADIENT_PENALTY
                   THEN Some(self.cfg.gradient_penalty) ELSE None
            /\ (self.cfg.wasserstein_type = GRADIENT_PENALTY
                   /\ "drift_term" \notin DOMAIN self.cfg) =>
                       self._drift_term_coeff = Some(0)

Wit_C7 ==
    /\ WDone
    /\ Self.cfg.wasserstein_type = GRADIENT_PENALTY
    /\ "drift_term" \notin DOMAIN Self.cfg
    /\ gradient_penalty(Self) = Some(1)
    /\ n_critic(Self) = 2
    /\ Self.d_iterations >= 2

\* C8: for a bound b > 0 the constraint returns a tensor with every element
\* in [-b, b], equal to the argument wherever the argument is within the
\* bound, and unchanged by a second application; the argument is untouched.
Thm_C8 ==
    result # None =>
        LET r == Val(result)
            b == Val(clip_obj)._clip_value
        IN  /\ r.arg = tensor
            /\ DOMAIN r.out = DOMAIN tensor
            /\ \A k \in DOMAIN tensor :
                  /\ r.out[k] >= 0 - b /\ r.out[k] <= b
                  /\ Abs(tensor[k]) <= b => r.out[k] = tensor[k]
            /\ r.again # None => Val(r.again) = r.out

Wit_C8 ==
    /\ result # None
    /\ Val(result).again # None
    /\ Len(tensor) = 2
    /\ tensor[1] > Val(clip_obj)._clip_value
    /\ tensor[2] < 0 - Val(clip_obj)._clip_value

\* C9 (as stated): in gradient-penalty mode every non-skipped sub-iteration
\* invokes the gradient-penalty evaluator exactly once before its optimiser
\* update; in clip mode the evaluator is never invoked.
CE_C9 ==
    WCall =>
        IF Self.cfg.wasserstein_type = GRADIENT_PENALTY
        THEN \A k \in 1..Len(call.log) :
                 call.log[k].ev = "apply_gradients" =>
                     /\ k > 1
                     /\ call.log[k - 1] = Event(call.log[k].idx, "penalty")
        ELSE CountEv("penalty") = 0

\* C10: sub-iterations run in index order; index idx is skipped exactly when
\* idx * minibatch_size >= B; every other index performs one optimiser update
\* followed by one metric update; a finished call has performed
\* min(n_critic, ceil(B / minibatch_size)) updates; the generator and the
\* evaluator never run on an empty slice.
IsStepEvent(e) == e.ev \in {"skip", "apply_gradients", "update_state"}

RECURSIVE ExpectedSteps(_, _, _, _)
ExpectedSteps(B, mb, from, to) ==
    IF from >= to THEN <<>>
    ELSE (IF from * mb >= B THEN <<Event(from, "skip")>>
          ELSE <<Event(from, "apply_gradients"), Event(from, "update_state")>>)
         \o ExpectedSteps(B, mb, from + 1, to)

Thm_C10 ==
    WCall =>
        LET B == call.real_images
            mb == Self._mb_size
            steps == SelectSeq(call.log, IsStepEvent)
            applies == CountEv("apply_gradients")
        IN  /\ \A k \in 1..(Len(call.log) - 1) : call.log[k].idx <= call.log[k + 1].idx
            /\ steps = ExpectedSteps(B, mb, 0, call.idx)
                         \o (IF call.pc = "metric"
                             THEN <<Event(call.idx, "apply_gradients")>> ELSE <<>>)
            /\ \A k \in 1..Len(call.log) :
                  call.log[k].ev \in {"generator", "penalty"} =>
                      call.log[k].idx * mb < B
            /\ call.pc \in {"forward", "apply", "metric"} => call.real_mb_size > 0
            /\ Self.d_iterations - Entry.d_iterations = applies
            /\ Self._d_metric.count - Entry._d_metric.count = CountEv("update_state")
            /\ call.pc = "done" =>
                  /\ call.idx = n_critic(Self)
                  /\ applies = Min(n_critic(Self), CeilDiv(B, mb))
                  /\ CountEv("update_state") = applies
                  /\ CountEv("generator") = applies

Wit_C10 ==
    /\ WDone
    /\ n_critic(Self) = 2 /\ Self._mb_size = 2 /\ call.real_images = 2
    /\ CountEv("skip") = 1 /\ CountEv("apply_gradients") = 1

====
